---- MODULE Spec2Model ----
(***************************************************************************)
(* Shutter-Thoughts: the page script (src/script.js) as a state machine.   *)
(*                                                                         *)
(* The state is the browser's local storage, the parts of the document     *)
(* the script reads and writes, the fields of the manager objects and the  *)
(* callbacks that are pending (timers, file pickers, file reads).  Every   *)
(* action is one browser task: an event handler together with the          *)
(* microtasks it queues.                                                   *)
(***************************************************************************)
EXTENDS Integers, Sequences, FiniteSets, TLC

VARIABLES
    \* ---- page markup and environment (inputs)
    category,               \* data-category of each .photo-item
    title,                  \* text of each .photo-item h3
    markupLikes,            \* text of each .photo-likes as served
    containerIsPlaceholder, \* .photo-container and .photo-placeholder are one element
    systemPref,             \* (prefers-color-scheme: dark), or no matchMedia
    linkTarget,             \* the section each .main-nav a[href^="#"] points at
    markupActiveLinks,      \* the nav links served with the active mark
    subtitleSource,         \* text of .site-subtitle as served
    \* ---- localStorage
    storageTheme,           \* value under 'theme'
    storagePhotoLikes,      \* value under 'photoLikes' (a JSON object text)
    \* ---- page life cycle
    loaded,                 \* the DOMContentLoaded handler has run
    listeners,              \* the groups of event listeners bound on this page
    consoleErrors,          \* console.error calls of the DOMContentLoaded handler
    \* ---- ThemeManager and the elements it writes
    currentTheme,           \* this.currentTheme
    dataTheme,              \* documentElement data-theme attribute
    themeIcon,              \* .theme-icon textContent
    bodyTransition,         \* document.body.style.transition
    transitionTimers,       \* pending 300 ms timers of toggleTheme
    \* ---- GalleryManager and the elements it writes
    currentFilter,          \* this.currentFilter
    hidden,                 \* each .photo-item carries class 'hidden'
    animation,              \* each .photo-item style.animation
    activeButtons,          \* the .filter-btn elements carrying class 'active'
    likesText,              \* each .photo-likes textContent
    placeholderImage,       \* each .photo-placeholder style.backgroundImage
    loadingDisplay,         \* #loadingIndicator style.display
    uploads,                \* the handlePhotoUpload calls made on this page
    notices,                \* the .error-message elements made by showError
    modals,                 \* the .photo-modal elements made by createPhotoModal
    tracked,                \* (auxiliary) position in notices of the notice under observation
    \* ---- NavigationManager and the elements it writes
    activeLinks,            \* the nav links carrying class 'active'
    currentLinks,           \* the nav links carrying aria-current="page"
    \* ---- TypingAnimation and the element it writes
    subtitleText,           \* .site-subtitle textContent
    subtitleCursor,         \* .site-subtitle style.borderRight
    typingIndex,            \* i of the typeWriter closure
    typingTimer,            \* a setTimeout(typeWriter, ...) is pending
    \* ---- a second tab showing the same page (it shares local storage)
    tabLoaded,              \* its DOMContentLoaded handler has run
    tabLikesText,           \* each .photo-likes textContent of its document
    \* ---- the task that ran last
    last

markupVars  == <<category, title, markupLikes, containerIsPlaceholder,
                 linkTarget, markupActiveLinks, subtitleSource>>
initVars    == <<listeners, consoleErrors>>
navVars     == <<activeLinks, currentLinks>>
typingVars  == <<subtitleText, subtitleCursor, typingIndex, typingTimer>>
tabVars     == <<tabLoaded, tabLikesText>>
storageVars == <<storageTheme, storagePhotoLikes>>
themeVars   == <<currentTheme, dataTheme, themeIcon, bodyTransition, transitionTimers>>
filterVars  == <<currentFilter, hidden, animation, activeButtons>>
uploadVars  == <<placeholderImage, loadingDisplay, uploads>>
vars == <<category, title, markupLikes, containerIsPlaceholder, systemPref,
          linkTarget, markupActiveLinks, subtitleSource,
          storageTheme, storagePhotoLikes, loaded, listeners, consoleErrors,
          currentTheme, dataTheme, themeIcon, bodyTransition, transitionTimers,
          currentFilter, hidden, animation, activeButtons, likesText,
          placeholderImage, loadingDisplay, uploads, notices, modals, tracked,
          activeLinks, currentLinks,
          subtitleText, subtitleCursor, typingIndex, typingTimer,
          tabLoaded, tabLikesText, last>>

(***************************************************************************)
(* Bounds of the model.                                                    *)
(***************************************************************************)
NumPhotos == 2
MaxLikes == 2
MaxTransitionTimers == 3
MaxUploads == 2
MaxNotices == 2
MaxModals == 2
MaxCloseCalls == 3
NumLinks == 2
MaxEntries == 2
MaxSubtitle == 3

Photos == 1..NumPhotos

\* localStorage.getItem of a key that is not stored; a style or field never set
None == "null"

(***************************************************************************)
(* Text.  A text is a sequence of characters, so that formatting a number  *)
(* and parsing it back are computed and not assumed.                       *)
(***************************************************************************)
DigitChars == <<"0", "1", "2", "3", "4", "5", "6", "7", "8", "9">>

IsDigit(c) == \E d \in 1..10 : DigitChars[d] = c

DigitValue(c) == (CHOOSE d \in 1..10 : DigitChars[d] = c) - 1

\* String(n) of a non-negative integer, as a template literal `${n}` writes it
RECURSIVE NumberToText(_)
NumberToText(n) ==
    IF n < 10 THEN <<DigitChars[n + 1]>>
    ELSE NumberToText(n \div 10) \o <<DigitChars[(n % 10) + 1]>>

NaN == [nan |-> TRUE, val |-> 0]
Num(n) == [nan |-> FALSE, val |-> n]

RECURSIVE SkipSpaces(_)
SkipSpaces(s) ==
    IF s # <<>> /\ Head(s) = " " THEN SkipSpaces(Tail(s)) ELSE s

RECURSIVE LeadingDigits(_)
LeadingDigits(s) ==
    IF s # <<>> /\ IsDigit(Head(s)) THEN <<Head(s)>> \o LeadingDigits(Tail(s))
    ELSE <<>>

RECURSIVE DigitsValue(_, _)
DigitsValue(ds, acc) ==
    IF ds = <<>> THEN acc
    ELSE DigitsValue(Tail(ds), 10 * acc + DigitValue(Head(ds)))

\* parseInt(text): leading white space is skipped, the longest run of digits
\* is read, the rest is ignored; NaN when there is no digit to read
parseInt(s) ==
    LET ds == LeadingDigits(SkipSpaces(s))
    IN IF ds = <<>> THEN NaN ELSE Num(DigitsValue(ds, 0))

\* x || 0 for a number x
OrZero(x) == IF x.nan \/ x.val = 0 THEN 0 ELSE x.val

LikesSuffix == <<" ", "l", "i", "k", "e", "s">>

\* the template literal `${n} likes`
LikesLabel(n) == NumberToText(n) \o LikesSuffix

(***************************************************************************)
(* ThemeManager                                                            *)
(***************************************************************************)
Themes == {"light", "dark"}

\* a value a different version of the page left under 'theme'
StaleTheme == "auto"

MarkupIcon == "moon"

\* updateThemeIcon
ThemeIconFor(theme) == IF theme = "dark" THEN "sun" ELSE "moon"

\* localStorage.getItem('theme') || 'light'
InitialTheme(stored) == IF stored = None THEN "light" ELSE stored

\* applyTheme(theme): the attribute, the icon and the stored value
\* variant: the theme is applied to the document but not persisted
applyThemeUnsaved(theme) ==
    /\ dataTheme' = theme
    /\ themeIcon' = ThemeIconFor(theme)
    /\ UNCHANGED storageTheme

applyTheme(theme) ==
    /\ dataTheme' = theme
    /\ themeIcon' = ThemeIconFor(theme)
    /\ storageTheme' = theme

\* (variant for C5: the toggle only ever switches to dark)
FlipToDark(theme) == "dark"

\* this.currentTheme === 'dark' ? 'light' : 'dark'
Flip(theme) == IF theme = "dark" THEN "light" ELSE "dark"

(***************************************************************************)
(* localStorage 'photoLikes': a JSON object, kept as the sequence of its   *)
(* members in the order JSON.stringify wrote them, each value as the       *)
(* digits of the JSON number.                                              *)
(***************************************************************************)
Titles == {"Sunset", "Dunes"}

\* a page whose entries alternate between the two titles
AlternatingTitles == [p \in Photos |-> IF p % 2 = 1 THEN "Sunset" ELSE "Dunes"]

\* JSON.parse(text): the members, each value read back as a number
JSONparse(text) ==
    [i \in 1..Len(text) |-> [key |-> text[i].key, val |-> DigitsValue(text[i].val, 0)]]

\* JSON.stringify(obj): the members, each value written as its digits
JSONstringify(obj) ==
    [i \in 1..Len(obj) |-> [key |-> obj[i].key, val |-> NumberToText(obj[i].val)]]

\* the item under 'photoLikes': not stored, or stored with a text
AbsentItem == [stored |-> FALSE, text |-> <<>>]
Item(text) == [stored |-> TRUE, text |-> text]

\* localStorage.getItem('photoLikes') || '{}'
StoredLikesOrEmpty(item) == IF item.stored THEN item.text ELSE <<>>

\* JSON.parse(localStorage.getItem('photoLikes') || '{}')
ReadLikes(item) == JSONparse(StoredLikesOrEmpty(item))

HasKey(obj, k) == \E i \in 1..Len(obj) : obj[i].key = k

GetKey(obj, k) == obj[CHOOSE i \in 1..Len(obj) : obj[i].key = k].val

\* obj[k] = v: an own property keeps its place, a new one is added last
SetKey(obj, k, v) ==
    IF HasKey(obj, k)
    THEN [i \in 1..Len(obj) |-> IF obj[i].key = k THEN [key |-> k, val |-> v] ELSE obj[i]]
    ELSE Append(obj, [key |-> k, val |-> v])

\* Array.from(querySelectorAll('.photo-item')).find(item => h3 text === t):
\* the first entry in document order that carries the title, 0 for undefined
FindPhotoByTitle(t) ==
    IF \E p \in Photos : title[p] = t
    THEN CHOOSE p \in Photos : title[p] = t /\ \A q \in Photos : title[q] = t => p <= q
    ELSE 0

\* Object.entries(savedLikes).forEach(...): each member in turn writes the
\* label of the entry it finds
RECURSIVE RestoreLikes(_, _)
RestoreLikes(entries, texts) ==
    IF entries = <<>> THEN texts
    ELSE LET e == Head(entries)
             p == FindPhotoByTitle(e.key)
         IN RestoreLikes(Tail(entries),
                         IF p # 0 THEN [texts EXCEPT ![p] = LikesLabel(e.val)] ELSE texts)

(***************************************************************************)
(* Files and validateImageFile                                             *)
(***************************************************************************)
allowedTypes == <<"image/jpeg", "image/jpg", "image/png", "image/gif", "image/webp">>

maxSize == 10 * 1024 * 1024

Includes(seq, x) == \E i \in 1..Len(seq) : seq[i] = x

InvalidTypeMessage == "Invalid file type. Please upload JPEG, PNG, GIF, or WebP images only."
TooLargeMessage == "File too large. Please upload images smaller than 10MB."
NoFileMessage == "No file selected"
CancelledMessage == "Upload cancelled"
ReadFailedMessage == "Failed to read file. Please try again."
NoPhotoMessage == "No photo to view. Please upload a photo first."

\* (variant for C2: the size check written with >=)
validateImageFileBelowMax(file) ==
    IF ~Includes(allowedTypes, file.type) THEN InvalidTypeMessage
    ELSE IF file.size >= maxSize THEN TooLargeMessage
    ELSE "ok"

\* validateImageFile(file): "ok" for return true, else the message thrown
validateImageFile(file) ==
    IF ~Includes(allowedTypes, file.type) THEN InvalidTypeMessage
    ELSE IF file.size > maxSize THEN TooLargeMessage
    ELSE "ok"

\* the files the picker can hand over in the model
FileTypes == {"image/jpeg", "image/jpg", "image/png", "image/gif", "image/webp",
              "image/svg+xml", "application/pdf"}
FileSizes == {maxSize, maxSize + 1}
Files == [type : FileTypes, size : FileSizes]
NoFile == [type |-> None, size |-> 0]

(***************************************************************************)
(* The document as served, before any script has run.                      *)
(***************************************************************************)
Categories == {"portrait", "landscape"}

\* the .filter-btn elements, each named by its data-filter
FilterButtons == {"all", "portrait", "landscape"}

\* texts a .photo-likes element can be served with
MarkupLikesTexts == {LikesLabel(0), LikesLabel(9), <<"l", "i", "k", "e", "s">>}

NoImage == 0

MarkupState ==
    /\ currentTheme = None
    /\ dataTheme = None
    /\ themeIcon = MarkupIcon
    /\ bodyTransition = ""
    /\ transitionTimers = 0
    /\ currentFilter = None
    /\ hidden = [p \in Photos |-> FALSE]
    /\ animation = [p \in Photos |-> ""]
    /\ activeButtons = {"all"}
    /\ likesText = markupLikes
    /\ placeholderImage = [p \in Photos |-> NoImage]
    /\ loadingDisplay = ""
    /\ uploads = <<>>
    /\ notices = <<>>
    /\ modals = <<>>
    /\ tracked = 0
    /\ listeners = {}
    /\ consoleErrors = 0
    /\ activeLinks = markupActiveLinks
    /\ currentLinks = markupActiveLinks
    /\ subtitleText = subtitleSource
    /\ subtitleCursor = ""
    /\ typingIndex = 0
    /\ typingTimer = FALSE

\* the record of a task: its handler, the element it ran on, what it decided,
\* the file it was handed (a 'change' event) and, in `before', for toggleTheme
\* the theme states its run of toggles started from and for an intersection
\* callback the entries it was handed
Did(op, arg, note) ==
    [op |-> op, arg |-> arg, note |-> note, file |-> NoFile, before |-> <<>>]

\* the user leaves or reloads the page: the document and every pending
\* callback are discarded, local storage stays
PageUnload ==
    /\ loaded
    /\ loaded' = FALSE
    /\ currentTheme' = None
    /\ dataTheme' = None
    /\ themeIcon' = MarkupIcon
    /\ bodyTransition' = ""
    /\ transitionTimers' = 0
    /\ currentFilter' = None
    /\ hidden' = [p \in Photos |-> FALSE]
    /\ animation' = [p \in Photos |-> ""]
    /\ activeButtons' = {"all"}
    /\ likesText' = markupLikes
    /\ placeholderImage' = [p \in Photos |-> NoImage]
    /\ loadingDisplay' = ""
    /\ uploads' = <<>>
    /\ notices' = <<>>
    /\ modals' = <<>>
    /\ tracked' = 0
    /\ listeners' = {}
    /\ consoleErrors' = 0
    /\ activeLinks' = markupActiveLinks
    /\ currentLinks' = markupActiveLinks
    /\ subtitleText' = subtitleSource
    /\ subtitleCursor' = ""
    /\ typingIndex' = 0
    /\ typingTimer' = FALSE
    /\ last' = Did("PageUnload", 0, "")
    /\ UNCHANGED <<markupVars, tabVars, systemPref, storageVars>>

(***************************************************************************)
(* The DOMContentLoaded handler: the steps of its try block run in order   *)
(* until one throws; the catch block logs the error.  AnimationManager,    *)
(* PerformanceManager and updateCurrentYear write only elements and styles *)
(* that are not part of this state, so of them only their listeners are.   *)
(***************************************************************************)
InitOrder == <<"ThemeManager", "GalleryManager", "NavigationManager", "AnimationManager",
               "TypingAnimation", "PerformanceManager", "savedLikes">>

InitSteps == 1..Len(InitOrder)

StepOf(name) == CHOOSE k \in InitSteps : InitOrder[k] = name

\* no step throws
NoFailure == 0

\* the steps that have completed when step failAt throws
StepsBefore(failAt) == {k \in InitSteps : failAt = NoFailure \/ k < failAt}

\* the listeners a step binds when it completes
StepListeners(k) ==
    CASE InitOrder[k] = "ThemeManager"       -> {"theme"}
      [] InitOrder[k] = "GalleryManager"     -> {"gallery"}
      [] InitOrder[k] = "NavigationManager"  -> {"navClick", "scrollSpy"}
      [] InitOrder[k] = "AnimationManager"   -> {"animation"}
      [] InitOrder[k] = "PerformanceManager" -> {"performance"}
      [] OTHER                               -> {}

AllListeners == UNION {StepListeners(k) : k \in InitSteps}

\* the listeners a step has bound when it is the one that throws:
\* NavigationManager has run bindEvents when new IntersectionObserver throws
PartialListeners(k) ==
    IF k \in InitSteps /\ InitOrder[k] = "NavigationManager" THEN {"navClick"} ELSE {}

\* the handler, with `ran` the steps that complete and failAt the step that
\* throws.  A ThemeManager that throws does so in updateThemeIcon (no
\* #themeToggle), after the data-theme attribute was set; the likes step
\* throws in JSON.parse; the other steps throw before any write of theirs.
RunInit(failAt, ran) ==
    /\ ~loaded
    /\ loaded' = TRUE
    /\ listeners' = UNION {StepListeners(k) : k \in ran} \cup PartialListeners(failAt)
    /\ consoleErrors' = IF failAt = NoFailure THEN 0 ELSE 1
    \* new ThemeManager()
    /\ IF StepOf("ThemeManager") \in ran
       THEN /\ currentTheme' = InitialTheme(storageTheme)
            /\ applyTheme(currentTheme')
       ELSE /\ currentTheme' = None
            /\ dataTheme' = IF failAt = StepOf("ThemeManager")
                              THEN InitialTheme(storageTheme) ELSE dataTheme
            /\ UNCHANGED <<themeIcon, storageTheme>>
    \* new GalleryManager()
    /\ currentFilter' = IF StepOf("GalleryManager") \in ran THEN "all" ELSE currentFilter
    \* new TypingAnimation()
    /\ IF StepOf("TypingAnimation") \in ran
       THEN /\ subtitleText' = <<>>
            /\ subtitleCursor' = "2px solid var(--accent-primary-current)"
            /\ typingIndex' = 0
            /\ typingTimer' = TRUE
       ELSE UNCHANGED typingVars
    \* Load saved likes
    /\ likesText' = IF StepOf("savedLikes") \in ran
                      THEN RestoreLikes(ReadLikes(storagePhotoLikes), likesText)
                      ELSE likesText
    /\ last' = Did("DOMContentLoaded", failAt, "")
    /\ UNCHANGED <<markupVars, tabVars, navVars, tracked, systemPref, storagePhotoLikes,
                   bodyTransition, transitionTimers, hidden, animation, activeButtons,
                   uploadVars, notices, modals>>

\* variant: each step guarded on its own, so the steps after the failing one run
PageLoadRunsLaterSteps(failAt) == RunInit(failAt, InitSteps \ {failAt})

\* the handler when step failAt throws (NoFailure: none does)
PageLoad(failAt) == RunInit(failAt, StepsBefore(failAt))

\* the handler on a page that has every element and API the script uses
DOMContentLoaded == PageLoad(NoFailure)

(***************************************************************************)
(* ThemeManager events                                                     *)
(***************************************************************************)
\* what the theme is, in the three places that hold it
ThemeState == [currentTheme |-> currentTheme, dataTheme |-> dataTheme, stored |-> storageTheme]

LastTwo(seq) == IF Len(seq) > 2 THEN Tail(seq) ELSE seq

\* click on #themeToggle
toggleTheme ==
    /\ loaded
    /\ "theme" \in listeners
    /\ transitionTimers < MaxTransitionTimers
    /\ currentTheme' = Flip(currentTheme)
    /\ applyTheme(currentTheme')
    /\ bodyTransition' = "background-color 0.3s ease, color 0.3s ease"
    /\ transitionTimers' = transitionTimers + 1
    /\ last' = [Did("toggleTheme", 0, "") EXCEPT
                    !.before = LastTwo(Append(last.before, ThemeState))]
    /\ UNCHANGED <<markupVars, tabVars, initVars, navVars, typingVars, tracked,
                   systemPref, storagePhotoLikes, loaded, filterVars,
                   likesText, uploadVars, notices, modals>>

\* a 300 ms timer of toggleTheme fires
TransitionTimeout ==
    /\ transitionTimers > 0
    /\ transitionTimers' = transitionTimers - 1
    /\ bodyTransition' = ""
    /\ last' = [Did("TransitionTimeout", 0, "") EXCEPT !.before = last.before]
    /\ UNCHANGED <<markupVars, tabVars, initVars, navVars, typingVars, tracked,
                   systemPref, storageVars, loaded, currentTheme,
                   dataTheme, themeIcon, filterVars, likesText, uploadVars,
                   notices, modals>>

\* (variant for C10: the listener follows the system whatever is stored)
HasNoStoredThemeUnchecked(stored) == TRUE

\* !localStorage.getItem('theme')
HasNoStoredTheme(stored) == stored = None

\* the system colour scheme changes; the 'change' listener of bindEvents
\* runs when the page has registered it
SystemThemeChange ==
    /\ systemPref # "unavailable"
    /\ systemPref' = (IF systemPref = "dark" THEN "light" ELSE "dark")
    /\ IF "theme" \in listeners /\ HasNoStoredTheme(storageTheme)
       THEN /\ currentTheme' = (IF systemPref' = "dark" THEN "dark" ELSE "light")
            /\ applyTheme(currentTheme')
            /\ last' = Did("SystemThemeChange", 0, "applied")
       ELSE /\ UNCHANGED <<currentTheme, dataTheme, themeIcon, storageTheme>>
            /\ last' = Did("SystemThemeChange", 0, "ignored")
    /\ UNCHANGED <<markupVars, tabVars, initVars, navVars, typingVars, tracked,
                   storagePhotoLikes, loaded, bodyTransition,
                   transitionTimers, filterVars, likesText, uploadVars, notices, modals>>

\* something outside the page empties local storage (the user clears the
\* site data, another page of the origin calls localStorage.clear())
StorageCleared ==
    /\ storageTheme' = None
    /\ storagePhotoLikes' = AbsentItem
    /\ last' = Did("StorageCleared", 0, "")
    /\ UNCHANGED <<markupVars, tabVars, initVars, navVars, typingVars, tracked,
                   systemPref, loaded, themeVars, filterVars,
                   likesText, uploadVars, notices, modals>>

(***************************************************************************)
(* GalleryManager: filtering                                               *)
(***************************************************************************)
\* (variant for C1: the 'all' wildcard forgotten)
shouldShowCategoryOnly(filter, p) == category[p] = filter

\* const shouldShow = filter === 'all' || category === filter
shouldShow(filter, p) == filter = "all" \/ category[p] = filter

\* filterPhotos(filter)
filterPhotos(filter) ==
    /\ currentFilter' = filter
    /\ hidden' = [p \in Photos |-> ~shouldShow(filter, p)]
    /\ animation' = [p \in Photos |->
                        IF shouldShow(filter, p) THEN "fadeInUp 0.5s ease forwards"
                        ELSE "fadeOutDown 0.3s ease forwards"]

\* variant: the mark is added without clearing the other buttons
updateActiveButtonKeepsOthers(btn) == activeButtons' = activeButtons \cup {btn}

\* updateActiveButton(activeBtn)
updateActiveButton(btn) == activeButtons' = (activeButtons \ FilterButtons) \cup {btn}

\* click on the .filter-btn whose data-filter is btn
FilterClick(btn) ==
    /\ loaded
    /\ "gallery" \in listeners
    /\ filterPhotos(btn)
    /\ updateActiveButton(btn)
    /\ last' = Did("filterPhotos", 0, btn)
    /\ UNCHANGED <<markupVars, tabVars, initVars, navVars, typingVars, tracked,
                   systemPref, storageVars, loaded, themeVars,
                   likesText, uploadVars, notices, modals>>

(***************************************************************************)
(* GalleryManager: likes                                                   *)
(***************************************************************************)
\* the count a .photo-likes element displays: parseInt(textContent) || 0
DisplayedLikes(text) == OrZero(parseInt(text))

\* the model lets an entry collect MaxLikes likes on top of the count it is served with
LikesCap(p) == DisplayedLikes(markupLikes[p]) + MaxLikes

\* (variant for C3: the label is written from the count read, not the new one)
handleLikeStaleLabel(p) ==
    /\ loaded
    /\ "gallery" \in listeners
    /\ DisplayedLikes(likesText[p]) < LikesCap(p)
    /\ LET currentLikes == DisplayedLikes(likesText[p])
           newLikes == currentLikes + 1
           likes == ReadLikes(storagePhotoLikes)
       IN /\ likesText' = [likesText EXCEPT ![p] = LikesLabel(currentLikes)]
          /\ storagePhotoLikes' = Item(JSONstringify(SetKey(likes, title[p], newLikes)))
    /\ last' = Did("handleLike", p, "")
    /\ UNCHANGED <<markupVars, tabVars, initVars, navVars, typingVars, tracked,
                   systemPref, storageTheme, loaded, themeVars,
                   filterVars, uploadVars, notices, modals>>

\* variant: the map stored holds the liked title only
handleLikeFreshMap(p) ==
    /\ loaded
    /\ "gallery" \in listeners
    /\ DisplayedLikes(likesText[p]) < LikesCap(p)
    /\ LET newLikes == DisplayedLikes(likesText[p]) + 1
       IN /\ likesText' = [likesText EXCEPT ![p] = LikesLabel(newLikes)]
          /\ storagePhotoLikes' = Item(JSONstringify(SetKey(<<>>, title[p], newLikes)))
    /\ last' = Did("handleLike", p, "")
    /\ UNCHANGED <<markupVars, tabVars, initVars, navVars, typingVars, tracked,
                   systemPref, storageTheme, loaded, themeVars,
                   filterVars, uploadVars, notices, modals>>

\* variant: the count written is the persisted count of the title plus one
handleLikeFromStorage(p) ==
    /\ loaded
    /\ "gallery" \in listeners
    /\ DisplayedLikes(likesText[p]) < LikesCap(p)
    /\ LET likes == ReadLikes(storagePhotoLikes)
           photoId == title[p]
           newLikes == (IF HasKey(likes, photoId) THEN GetKey(likes, photoId) ELSE 0) + 1
       IN /\ likesText' = [likesText EXCEPT ![p] = LikesLabel(newLikes)]
          /\ storagePhotoLikes' = Item(JSONstringify(SetKey(likes, photoId, newLikes)))
    /\ last' = Did("handleLike", p, "")
    /\ UNCHANGED <<markupVars, tabVars, initVars, navVars, typingVars, tracked,
                   systemPref, storageTheme, loaded, themeVars,
                   filterVars, uploadVars, notices, modals>>

\* click on the Like button of photo entry p: handleLike.  (The button's
\* heartBeat animation, reset by a 600 ms timer, is decoration and is not
\* part of the state.)
handleLike(p) ==
    /\ loaded
    /\ "gallery" \in listeners
    /\ DisplayedLikes(likesText[p]) < LikesCap(p)
    /\ LET currentLikes == DisplayedLikes(likesText[p])
           newLikes == currentLikes + 1
           photoId == title[p]
           likes == ReadLikes(storagePhotoLikes)
       IN /\ likesText' = [likesText EXCEPT ![p] = LikesLabel(newLikes)]
          /\ storagePhotoLikes' = Item(JSONstringify(SetKey(likes, photoId, newLikes)))
    /\ last' = Did("handleLike", p, "")
    /\ UNCHANGED <<markupVars, tabVars, initVars, navVars, typingVars, tracked,
                   systemPref, storageTheme, loaded, themeVars,
                   filterVars, uploadVars, notices, modals>>

(***************************************************************************)
(* GalleryManager: error notices                                           *)
(***************************************************************************)
\* showError(message): a new .error-message element at the end of the body
showError(message) == notices' = Append(notices, [message |-> message, stage |-> "visible"])

RemoveAt(seq, i) == [j \in 1..(Len(seq) - 1) |-> IF j < i THEN seq[j] ELSE seq[j + 1]]

\* the 3000 ms timer of notice n fires: the exit animation starts
NoticeTimeout(n) ==
    /\ n \in 1..Len(notices)
    /\ notices[n].stage = "visible"
    /\ notices' = [notices EXCEPT ![n].stage = "exiting"]
    /\ last' = Did("NoticeTimeout", n, "")
    /\ UNCHANGED <<markupVars, tabVars, initVars, navVars, typingVars, tracked,
                   systemPref, storageVars, loaded, themeVars, filterVars,
                   likesText, uploadVars, modals>>

\* where the notice under observation is once notice n has left the body
TrackedAfterRemoval(n) ==
    IF tracked = n THEN 0 ELSE IF tracked > n THEN tracked - 1 ELSE tracked

\* variant: the 300 ms callback restarts the exit animation and removes nothing
NoticeRemovalKeepsNotice(n) ==
    /\ n \in 1..Len(notices)
    /\ notices[n].stage = "exiting"
    /\ last' = Did("NoticeRemoval", n, "kept")
    /\ UNCHANGED <<markupVars, tabVars, initVars, navVars, typingVars, tracked, systemPref,
                   storageVars, loaded, themeVars, filterVars, likesText, uploadVars,
                   notices, modals>>

\* the 300 ms timer of notice n fires: document.body.removeChild(errorDiv)
NoticeRemoval(n) ==
    /\ n \in 1..Len(notices)
    /\ notices[n].stage = "exiting"
    /\ notices' = RemoveAt(notices, n)
    /\ tracked' = TrackedAfterRemoval(n)
    /\ last' = Did("NoticeRemoval", n, IF tracked = n THEN "tracked" ELSE "")
    /\ UNCHANGED <<markupVars, tabVars, initVars, navVars, typingVars,
                   systemPref, storageVars, loaded, themeVars, filterVars,
                   likesText, uploadVars, modals>>

\* (auxiliary) notice n is put under observation; no program step
Track(n) ==
    /\ tracked = 0
    /\ n \in 1..Len(notices)
    /\ tracked' = n
    /\ last' = Did("Track", n, "")
    /\ UNCHANGED <<markupVars, tabVars, initVars, navVars, typingVars, systemPref, storageVars,
                   loaded, themeVars, filterVars, likesText, uploadVars, notices, modals>>

(***************************************************************************)
(* GalleryManager: uploads.  An upload is one call of handlePhotoUpload:   *)
(* its hidden file input, the promise awaiting the picker and, once a      *)
(* file is accepted, its FileReader.  The data URL a read produces is      *)
(* named by the upload it belongs to.  An upload holds its file from the   *)
(* start of the read; a failed read lets go of it.                         *)
(***************************************************************************)
\* click, Enter or Space on the .photo-placeholder of entry p: the input is
\* appended to the body and the picker opens
handlePhotoUpload(p) ==
    /\ loaded
    /\ "gallery" \in listeners
    /\ Len(uploads) < MaxUploads
    /\ uploads' = Append(uploads, [target |-> p, stage |-> "picking", inputInBody |-> TRUE,
                                   file |-> NoFile])
    /\ last' = Did("handlePhotoUpload", p, "")
    /\ UNCHANGED <<markupVars, tabVars, initVars, navVars, typingVars, tracked,
                   systemPref, storageVars, loaded, themeVars, filterVars,
                   likesText, placeholderImage, loadingDisplay, notices, modals>>

\* the promise is rejected: control passes to the catch block, which shows
\* the message; the statements after the await are skipped
UploadRejected(u, message) ==
    /\ Len(notices) < MaxNotices
    /\ uploads' = [uploads EXCEPT ![u].stage = "rejected"]
    /\ showError(message)
    /\ UNCHANGED <<placeholderImage, loadingDisplay>>

\* the promise is resolved with the file: the input is removed, the loading
\* indicator is shown and the read is started
UploadAccepted(u, file) ==
    /\ uploads' = [uploads EXCEPT ![u].stage = "reading", ![u].inputInBody = FALSE,
                                  ![u].file = file]
    /\ loadingDisplay' = "block"
    /\ UNCHANGED <<placeholderImage, notices>>

\* the 'change' event of upload u's input, with files[0] = file
PickerChange(u, file) ==
    /\ u \in 1..Len(uploads)
    /\ uploads[u].stage = "picking"
    /\ IF file = NoFile THEN UploadRejected(u, NoFileMessage)
       ELSE IF validateImageFile(file) = "ok" THEN UploadAccepted(u, file)
       ELSE UploadRejected(u, validateImageFile(file))
    /\ last' = [Did("change", u, "") EXCEPT !.file = file]
    /\ UNCHANGED <<markupVars, tabVars, initVars, navVars, typingVars, tracked,
                   systemPref, storageVars, loaded, themeVars, filterVars,
                   likesText, modals>>

\* the 'cancel' event of upload u's input
PickerCancel(u) ==
    /\ u \in 1..Len(uploads)
    /\ uploads[u].stage = "picking"
    /\ UploadRejected(u, CancelledMessage)
    /\ last' = Did("cancel", u, "")
    /\ UNCHANGED <<markupVars, tabVars, initVars, navVars, typingVars, tracked,
                   systemPref, storageVars, loaded, themeVars, filterVars,
                   likesText, modals>>

\* displayUploadedPhoto(placeholder, imageSrc).  (The pulse animation, reset
\* by a 600 ms timer, is decoration and is not part of the state.)
displayUploadedPhoto(p, imageSrc) ==
    placeholderImage' = [placeholderImage EXCEPT ![p] = imageSrc]

\* variant: the result of a read is dropped when a later upload to the same
\* element has been started
ReaderLoadLatestOnly(u) ==
    /\ u \in 1..Len(uploads)
    /\ uploads[u].stage = "reading"
    /\ IF \E v \in (u + 1)..Len(uploads) : uploads[v].target = uploads[u].target
       THEN UNCHANGED placeholderImage
       ELSE displayUploadedPhoto(uploads[u].target, u)
    /\ loadingDisplay' = "none"
    /\ uploads' = [uploads EXCEPT ![u].stage = "loaded"]
    /\ last' = Did("reader.onload", u, "")
    /\ UNCHANGED <<markupVars, tabVars, initVars, navVars, typingVars, tracked,
                   systemPref, storageVars, loaded, themeVars, filterVars,
                   likesText, notices, modals>>

\* reader.onload of upload u
ReaderLoad(u) ==
    /\ u \in 1..Len(uploads)
    /\ uploads[u].stage = "reading"
    /\ displayUploadedPhoto(uploads[u].target, u)
    /\ loadingDisplay' = "none"
    /\ uploads' = [uploads EXCEPT ![u].stage = "loaded"]
    /\ last' = Did("reader.onload", u, "")
    /\ UNCHANGED <<markupVars, tabVars, initVars, navVars, typingVars, tracked,
                   systemPref, storageVars, loaded, themeVars, filterVars,
                   likesText, notices, modals>>

\* variant: an onerror handler that leaves the loading indicator as it is
ReaderErrorKeepsLoading(u) ==
    /\ u \in 1..Len(uploads)
    /\ uploads[u].stage = "reading"
    /\ Len(notices) < MaxNotices
    /\ showError(ReadFailedMessage)
    /\ uploads' = [uploads EXCEPT ![u].stage = "readError", ![u].file = NoFile]
    /\ last' = Did("reader.onerror", u, "")
    /\ UNCHANGED <<markupVars, tabVars, initVars, navVars, typingVars, tracked,
                   systemPref, storageVars, loaded, themeVars, filterVars,
                   likesText, placeholderImage, loadingDisplay, modals>>

\* reader.onerror of upload u
ReaderError(u) ==
    /\ u \in 1..Len(uploads)
    /\ uploads[u].stage = "reading"
    /\ Len(notices) < MaxNotices
    /\ showError(ReadFailedMessage)
    /\ loadingDisplay' = "none"
    /\ uploads' = [uploads EXCEPT ![u].stage = "readError", ![u].file = NoFile]
    /\ last' = Did("reader.onerror", u, "")
    /\ UNCHANGED <<markupVars, tabVars, initVars, navVars, typingVars, tracked,
                   systemPref, storageVars, loaded, themeVars, filterVars,
                   likesText, placeholderImage, modals>>

(***************************************************************************)
(* GalleryManager: the full-size view                                      *)
(***************************************************************************)
\* photoContainer.style.backgroundImage of entry p; a container that is not
\* the placeholder is served without an inline background
ContainerImage(p) == IF containerIsPlaceholder THEN placeholderImage[p] ELSE NoImage

\* createPhotoModal(imageSrc): a new .photo-modal at the end of the body
createPhotoModal(imageSrc) ==
    modals' = Append(modals, [src |-> imageSrc, inBody |-> TRUE, closeCalls |-> 0,
                              removalTimers |-> 0, removeErrors |-> 0])

\* click on the View button of photo entry p: handleView
handleView(p) ==
    /\ loaded
    /\ "gallery" \in listeners
    /\ IF ContainerImage(p) # NoImage
       THEN /\ Len(modals) < MaxModals
            /\ createPhotoModal(ContainerImage(p))
            /\ UNCHANGED notices
            /\ last' = Did("handleView", p, "modal")
       ELSE /\ Len(notices) < MaxNotices
            /\ showError(NoPhotoMessage)
            /\ UNCHANGED modals
            /\ last' = Did("handleView", p, "error")
    /\ UNCHANGED <<markupVars, tabVars, initVars, navVars, typingVars, tracked,
                   systemPref, storageVars, loaded, themeVars, filterVars,
                   likesText, uploadVars>>

\* closeModal() run `times` times in one task: each run restarts the fade-out
\* and sets a 300 ms timer that removes the modal
closeModal(m, times) ==
    /\ m \in 1..Len(modals)
    /\ modals[m].inBody
    /\ modals[m].closeCalls + times <= MaxCloseCalls
    /\ modals' = [modals EXCEPT ![m].closeCalls = @ + times,
                                ![m].removalTimers = @ + times]
    /\ UNCHANGED <<markupVars, tabVars, initVars, navVars, typingVars, tracked,
                   systemPref, storageVars, loaded, themeVars, filterVars,
                   likesText, uploadVars, notices>>

\* click on .modal-close: its own listener runs closeModal, then the event
\* bubbles to .modal-backdrop, whose listener runs closeModal again
CloseButtonClick(m) ==
    /\ closeModal(m, 2)
    /\ last' = Did("CloseButtonClick", m, "")

\* click on .modal-backdrop, or on the content or image inside it
BackdropClick(m) ==
    /\ closeModal(m, 1)
    /\ last' = Did("BackdropClick", m, "")

\* keydown of Escape inside the modal
EscapeKey(m) ==
    /\ closeModal(m, 1)
    /\ last' = Did("EscapeKey", m, "")

\* (variant for C6: the timer callback leaves the modal in the body)
RemovalTimerKeepsModal(m) ==
    /\ m \in 1..Len(modals)
    /\ modals[m].removalTimers > 0
    /\ modals' = [modals EXCEPT ![m].removalTimers = @ - 1]
    /\ last' = Did("RemovalTimer", m, "kept")
    /\ UNCHANGED <<markupVars, tabVars, initVars, navVars, typingVars, tracked,
                   systemPref, storageVars, loaded, themeVars, filterVars,
                   likesText, uploadVars, notices>>

\* a 300 ms timer of closeModal fires: document.body.removeChild(modal),
\* which throws NotFoundError when the modal is no longer a child of the body
RemovalTimer(m) ==
    /\ m \in 1..Len(modals)
    /\ modals[m].removalTimers > 0
    /\ modals' = [modals EXCEPT ![m].removalTimers = @ - 1,
                                ![m].inBody = FALSE,
                                ![m].removeErrors = IF modals[m].inBody THEN @ ELSE @ + 1]
    /\ last' = Did("RemovalTimer", m, IF modals[m].inBody THEN "removed" ELSE "NotFoundError")
    /\ UNCHANGED <<markupVars, tabVars, initVars, navVars, typingVars, tracked,
                   systemPref, storageVars, loaded, themeVars, filterVars,
                   likesText, uploadVars, notices>>

(***************************************************************************)
(* NavigationManager                                                       *)
(***************************************************************************)
\* this.navLinks, in document order
Links == 1..NumLinks

\* the section[id] elements of the page
Sections == {"gallery", "about"}

\* the href of a link names no element of the page
NoSection == "missing"

\* document.querySelector('.main-nav a[href="#<id>"]'): the first such link, 0 for null
CorrespondingLink(sectionId) ==
    IF \E l \in Links : linkTarget[l] = sectionId
    THEN CHOOSE l \in Links : linkTarget[l] = sectionId
                                 /\ \A k \in Links : linkTarget[k] = sectionId => l <= k
    ELSE 0

\* variant: the mark is set on the link without clearing the other links
updateActiveLinkKeepsOthers(marked, activeLink) == marked \cup {activeLink}

\* updateActiveLink(activeLink), on the set of links carrying a mark
updateActiveLink(marked, activeLink) == (marked \ Links) \cup {activeLink}

\* click on nav link l
NavClick(l) ==
    /\ "navClick" \in listeners
    /\ IF linkTarget[l] # NoSection
       THEN /\ activeLinks' = updateActiveLink(activeLinks, l)
            /\ currentLinks' = updateActiveLink(currentLinks, l)
            /\ last' = Did("navClick", l, "scrolled")
       ELSE /\ UNCHANGED navVars
            /\ last' = Did("navClick", l, "")
    /\ UNCHANGED <<markupVars, tabVars, initVars, typingVars, tracked, systemPref, storageVars,
                   loaded, themeVars, filterVars, likesText, uploadVars, notices, modals>>

\* the entries an intersection callback can be handed
IntersectionEntries == [target : Sections, isIntersecting : BOOLEAN]

EntryLists == UNION {[1..n -> IntersectionEntries] : n \in 1..MaxEntries}

\* entries.forEach(...) of the scroll-spy callback
RECURSIVE SpyEntries(_, _)
SpyEntries(entries, marked) ==
    IF entries = <<>> THEN marked
    ELSE LET entry == Head(entries)
             correspondingLink == CorrespondingLink(entry.target)
         IN SpyEntries(Tail(entries),
                       IF entry.isIntersecting /\ correspondingLink # 0
                       THEN updateActiveLink(marked, correspondingLink)
                       ELSE marked)

\* the IntersectionObserver of setupScrollSpy delivers entries
ScrollSpy(entries) ==
    /\ "scrollSpy" \in listeners
    /\ activeLinks' = SpyEntries(entries, activeLinks)
    /\ currentLinks' = SpyEntries(entries, currentLinks)
    /\ last' = [Did("scrollSpy", 0, "") EXCEPT !.before = entries]
    /\ UNCHANGED <<markupVars, tabVars, initVars, typingVars, tracked, systemPref, storageVars,
                   loaded, themeVars, filterVars, likesText, uploadVars, notices, modals>>

(***************************************************************************)
(* TypingAnimation                                                         *)
(***************************************************************************)
TypingChars == {"a", "b", "c"}

\* the subtitles a page is served with
TypingSources == UNION {[1..n -> TypingChars] : n \in 0..MaxSubtitle}

\* variant: the character at the start of the text, whatever the index
charAtStart(text, i) == IF Len(text) > 0 THEN <<text[1]>> ELSE <<>>

\* text.charAt(i), index from 0; '' past the end
charAt(text, i) == IF i >= 0 /\ i < Len(text) THEN <<text[i + 1]>> ELSE <<>>

\* a timer of the typing run fires: typeWriter().  `text' of the closure is
\* the subtitle as served, read by init() before it emptied the element.
typeWriter ==
    /\ typingTimer
    /\ LET text == subtitleSource
       IN IF typingIndex < Len(text)
          THEN /\ subtitleText' = subtitleText \o charAt(text, typingIndex)
               /\ typingIndex' = typingIndex + 1
               /\ typingTimer' = TRUE
               /\ UNCHANGED subtitleCursor
          ELSE /\ subtitleCursor' = "none"
               /\ typingTimer' = FALSE
               /\ UNCHANGED <<subtitleText, typingIndex>>
    /\ last' = Did("typeWriter", typingIndex, "")
    /\ UNCHANGED <<markupVars, tabVars, initVars, navVars, tracked, systemPref, storageVars,
                   loaded, themeVars, filterVars, likesText, uploadVars, notices, modals>>

(***************************************************************************)
(* A second tab on the same page.  It runs the same script on its own      *)
(* document and shares local storage with the first; of its document only  *)
(* the like labels are part of the state.                                  *)
(***************************************************************************)
\* the DOMContentLoaded handler of the second tab: its ThemeManager persists
\* the theme it starts with, its last step restores the likes
OtherTabLoad ==
    /\ ~tabLoaded
    /\ tabLoaded' = TRUE
    /\ storageTheme' = InitialTheme(storageTheme)
    /\ tabLikesText' = RestoreLikes(ReadLikes(storagePhotoLikes), tabLikesText)
    /\ last' = Did("otherTab.DOMContentLoaded", 0, "")
    /\ UNCHANGED <<markupVars, initVars, navVars, typingVars, tracked, systemPref,
                   storagePhotoLikes, loaded, themeVars, filterVars, likesText,
                   uploadVars, notices, modals>>

\* the second tab is closed or leaves the page
OtherTabUnload ==
    /\ tabLoaded
    /\ tabLoaded' = FALSE
    /\ tabLikesText' = markupLikes
    /\ last' = Did("otherTab.PageUnload", 0, "")
    /\ UNCHANGED <<markupVars, initVars, navVars, typingVars, tracked, systemPref,
                   storageVars, loaded, themeVars, filterVars, likesText,
                   uploadVars, notices, modals>>

\* variant: the count written is one more than the greater of the displayed
\* and the persisted count
OtherTabLikeMerging(p) ==
    /\ tabLoaded
    /\ DisplayedLikes(tabLikesText[p]) < LikesCap(p)
    /\ LET currentLikes == DisplayedLikes(tabLikesText[p])
           likes == ReadLikes(storagePhotoLikes)
           photoId == title[p]
           persisted == IF HasKey(likes, photoId) THEN GetKey(likes, photoId) ELSE 0
           newLikes == (IF persisted > currentLikes THEN persisted ELSE currentLikes) + 1
       IN /\ tabLikesText' = [tabLikesText EXCEPT ![p] = LikesLabel(newLikes)]
          /\ storagePhotoLikes' = Item(JSONstringify(SetKey(likes, photoId, newLikes)))
    /\ last' = Did("otherTab.handleLike", p, "")
    /\ UNCHANGED <<markupVars, initVars, navVars, typingVars, tracked, systemPref,
                   storageTheme, loaded, themeVars, filterVars, likesText,
                   uploadVars, notices, modals, tabLoaded>>

\* click on the Like button of photo entry p in the second tab: handleLike
OtherTabLike(p) ==
    /\ tabLoaded
    /\ DisplayedLikes(tabLikesText[p]) < LikesCap(p)
    /\ LET currentLikes == DisplayedLikes(tabLikesText[p])
           newLikes == currentLikes + 1
           photoId == title[p]
           likes == ReadLikes(storagePhotoLikes)
       IN /\ tabLikesText' = [tabLikesText EXCEPT ![p] = LikesLabel(newLikes)]
          /\ storagePhotoLikes' = Item(JSONstringify(SetKey(likes, photoId, newLikes)))
    /\ last' = Did("otherTab.handleLike", p, "")
    /\ UNCHANGED <<markupVars, initVars, navVars, typingVars, tracked, systemPref,
                   storageTheme, loaded, themeVars, filterVars, likesText,
                   uploadVars, notices, modals, tabLoaded>>

(***************************************************************************)
(* Specifications.  The managers share no state but local storage and the  *)
(* document body, so each specification runs the page with the events of   *)
(* one area, from every document and storage that area depends on.         *)
(***************************************************************************)
\* a fresh browser profile on a fixed two-category page
\* a page whose nav links point at no section and whose subtitle is empty
PlainChrome ==
    /\ linkTarget = [l \in Links |-> NoSection]
    /\ markupActiveLinks = {}
    /\ subtitleSource = <<>>

PlainMarkup ==
    /\ category = [p \in Photos |-> IF p % 2 = 1 THEN "portrait" ELSE "landscape"]
    /\ title = AlternatingTitles
    /\ markupLikes = [p \in Photos |-> LikesLabel(0)]
    /\ containerIsPlaceholder = TRUE
    /\ PlainChrome

FreshStorage ==
    /\ storageTheme = None
    /\ storagePhotoLikes = AbsentItem

\* no second tab is open
NoOtherTab ==
    /\ tabLoaded = FALSE
    /\ tabLikesText = markupLikes

Unloaded ==
    /\ loaded = FALSE
    /\ MarkupState
    /\ NoOtherTab
    /\ last = Did("navigate", 0, "")

PageLife == DOMContentLoaded \/ PageUnload

\* ---- theme
InitTheme ==
    /\ PlainMarkup
    /\ systemPref \in {"light", "dark", "unavailable"}
    /\ storageTheme \in {None, "light", "dark", StaleTheme}
    /\ storagePhotoLikes = AbsentItem
    /\ Unloaded

NextTheme == PageLife \/ toggleTheme \/ TransitionTimeout \/ SystemThemeChange

SpecTheme == InitTheme /\ [][NextTheme]_vars

\* ---- theme, with local storage emptied from outside the page
NextThemeEnv == NextTheme \/ StorageCleared

SpecThemeEnv == InitTheme /\ [][NextThemeEnv]_vars

\* ---- filtering
InitFilter ==
    /\ category \in [Photos -> Categories]
    /\ title = AlternatingTitles
    /\ markupLikes = [p \in Photos |-> LikesLabel(0)]
    /\ containerIsPlaceholder = TRUE
    /\ PlainChrome
    /\ systemPref = "light"
    /\ FreshStorage
    /\ Unloaded

NextFilter ==
    \/ PageLife
    \/ \E btn \in FilterButtons : FilterClick(btn)
    \/ \E p \in Photos : handleLike(p)

SpecFilter == InitFilter /\ [][NextFilter]_vars

\* ---- likes
InitLikes ==
    /\ category = [p \in Photos |-> "portrait"]
    /\ title \in [Photos -> Titles]
    /\ markupLikes \in [Photos -> MarkupLikesTexts]
    /\ containerIsPlaceholder = TRUE
    /\ PlainChrome
    /\ systemPref = "light"
    /\ FreshStorage
    /\ Unloaded

NextLikes == PageLife \/ \E p \in Photos : handleLike(p)

SpecLikes == InitLikes /\ [][NextLikes]_vars

\* ---- uploads
InitUpload ==
    /\ PlainMarkup
    /\ systemPref = "light"
    /\ FreshStorage
    /\ Unloaded

NoticeTimers == \E n \in 1..MaxNotices : NoticeTimeout(n) \/ NoticeRemoval(n)

NextUpload ==
    \/ PageLife
    \/ \E p \in Photos : handlePhotoUpload(p)
    \/ \E u \in 1..MaxUploads : \E file \in Files \cup {NoFile} : PickerChange(u, file)
    \/ \E u \in 1..MaxUploads : PickerCancel(u)
    \/ \E u \in 1..MaxUploads : ReaderLoad(u)
    \/ \E u \in 1..MaxUploads : ReaderError(u)
    \/ NoticeTimers

SpecUpload == InitUpload /\ [][NextUpload]_vars

\* a JPEG of the largest accepted size
ViewFile == [type |-> "image/jpeg", size |-> maxSize]

\* ---- the full-size view: a loaded page of a fresh profile on which one
\* upload to the first entry has just been read and painted
InitView ==
    /\ category = [p \in Photos |-> IF p % 2 = 1 THEN "portrait" ELSE "landscape"]
    /\ title = AlternatingTitles
    /\ markupLikes = [p \in Photos |-> LikesLabel(0)]
    /\ containerIsPlaceholder \in BOOLEAN
    /\ PlainChrome
    /\ systemPref = "light"
    /\ storageTheme = "light"
    /\ storagePhotoLikes = AbsentItem
    /\ loaded = TRUE
    /\ listeners = AllListeners
    /\ consoleErrors = 0
    /\ tracked = 0
    /\ activeLinks = {}
    /\ currentLinks = {}
    /\ subtitleText = <<>>
    /\ subtitleCursor = "none"
    /\ typingIndex = 0
    /\ typingTimer = FALSE
    /\ currentTheme = "light"
    /\ dataTheme = "light"
    /\ themeIcon = ThemeIconFor("light")
    /\ bodyTransition = ""
    /\ transitionTimers = 0
    /\ currentFilter = "all"
    /\ hidden = [p \in Photos |-> FALSE]
    /\ animation = [p \in Photos |-> ""]
    /\ activeButtons = {"all"}
    /\ likesText = markupLikes
    /\ placeholderImage = [p \in Photos |-> IF p = 1 THEN 1 ELSE NoImage]
    /\ loadingDisplay = "none"
    /\ uploads = <<[target |-> 1, stage |-> "loaded", inputInBody |-> FALSE, file |-> ViewFile]>>
    /\ notices = <<>>
    /\ modals = <<>>
    /\ NoOtherTab
    /\ last = Did("reader.onload", 1, "")

NextView ==
    \/ PageLife
    \/ \E p \in Photos : handleView(p)
    \/ \E m \in 1..MaxModals : CloseButtonClick(m)
    \/ \E m \in 1..MaxModals : BackdropClick(m)
    \/ \E m \in 1..MaxModals : EscapeKey(m)
    \/ \E m \in 1..MaxModals : RemovalTimer(m)
    \/ NoticeTimers

SpecView == InitView /\ [][NextView]_vars

\* ---- error notices: View clicks on entries without an image and dismissed
\* file pickers of the first entry raise them.
\* A timer of a page that stays open fires, so the timer callbacks are
\* weakly fair.
InitNotices ==
    /\ PlainMarkup
    /\ systemPref = "light"
    /\ FreshStorage
    /\ Unloaded

NextNotices ==
    \/ PageLife
    \/ \E p \in Photos : handleView(p)
    \/ handlePhotoUpload(1)
    \/ \E u \in 1..MaxUploads : PickerCancel(u)
    \/ \E n \in 1..MaxNotices : NoticeTimeout(n)
    \/ \E n \in 1..MaxNotices : NoticeRemoval(n)
    \/ \E n \in 1..MaxNotices : Track(n)

SpecNotices ==
    /\ InitNotices
    /\ [][NextNotices]_vars
    /\ \A n \in 1..MaxNotices : WF_vars(NoticeTimeout(n)) /\ WF_vars(NoticeRemoval(n))

\* ---- navigation
InitNav ==
    /\ category = [p \in Photos |-> "portrait"]
    /\ title = AlternatingTitles
    /\ markupLikes = [p \in Photos |-> LikesLabel(0)]
    /\ containerIsPlaceholder = TRUE
    /\ linkTarget \in [Links -> Sections \cup {NoSection}]
    /\ markupActiveLinks \in {{}, {1}, Links}
    /\ subtitleSource = <<>>
    /\ systemPref = "light"
    /\ FreshStorage
    /\ Unloaded

NextNav ==
    \/ PageLife
    \/ \E l \in Links : NavClick(l)
    \/ \E entries \in EntryLists : ScrollSpy(entries)

SpecNav == InitNav /\ [][NextNav]_vars

\* ---- the typing animation; its timers fire while the page stays open
InitTyping ==
    /\ category = [p \in Photos |-> "portrait"]
    /\ title = AlternatingTitles
    /\ markupLikes = [p \in Photos |-> LikesLabel(0)]
    /\ containerIsPlaceholder = TRUE
    /\ linkTarget = [l \in Links |-> NoSection]
    /\ markupActiveLinks = {}
    /\ subtitleSource \in TypingSources
    /\ systemPref = "light"
    /\ FreshStorage
    /\ Unloaded

NextTyping == PageLife \/ typeWriter

SpecTyping == InitTyping /\ [][NextTyping]_vars /\ WF_vars(typeWriter)

\* ---- initialization that may fail at any step, followed by events of the
\* managers
InitStartup ==
    /\ category = [p \in Photos |-> "portrait"]
    /\ title = AlternatingTitles
    /\ markupLikes = [p \in Photos |-> LikesLabel(0)]
    /\ containerIsPlaceholder = TRUE
    /\ linkTarget = [l \in Links |-> "gallery"]
    /\ markupActiveLinks = {}
    /\ subtitleSource = <<"a">>
    /\ systemPref = "light"
    /\ FreshStorage
    /\ Unloaded

NextStartup ==
    \/ PageUnload
    \/ \E failAt \in InitSteps \cup {NoFailure} : PageLoad(failAt)
    \/ \E btn \in FilterButtons : FilterClick(btn)
    \/ \E p \in Photos : handleLike(p)
    \/ \E l \in Links : NavClick(l)
    \/ typeWriter

SpecStartup == InitStartup /\ [][NextStartup]_vars

\* ---- uploads of a valid file, which may overlap
NextOverlap ==
    \/ PageLife
    \/ \E p \in Photos : handlePhotoUpload(p)
    \/ \E u \in 1..MaxUploads : PickerChange(u, ViewFile)
    \/ \E u \in 1..MaxUploads : ReaderLoad(u)
    \/ \E u \in 1..MaxUploads : ReaderError(u)
    \/ NoticeTimers

SpecOverlap == InitUpload /\ [][NextOverlap]_vars

\* ---- likes made in two tabs
NextTabs ==
    \/ PageLife
    \/ \E p \in Photos : handleLike(p)
    \/ OtherTabLoad
    \/ OtherTabUnload
    \/ \E p \in Photos : OtherTabLike(p)

SpecTabs == InitUpload /\ [][NextTabs]_vars

\* ---- likes next to the other state of the page: a loaded page with an
\* uploaded image on its first entry, on which the filter and the theme change
InitLikeFrame == InitView /\ containerIsPlaceholder

NextLikeFrame ==
    \/ PageLife
    \/ \E p \in Photos : handleLike(p)
    \/ \E btn \in FilterButtons : FilterClick(btn)
    \/ toggleTheme
    \/ TransitionTimeout

SpecLikeFrame == InitLikeFrame /\ [][NextLikeFrame]_vars

(***************************************************************************)
(* Properties                                                              *)
(***************************************************************************)

\* C1: after filterPhotos(f) returns, a photo entry is visible (carries no
\* 'hidden' class) if and only if f is "all" or the entry's category is f,
\* whatever filters were applied before.
C1_FilterShowsMatching ==
    last.op = "filterPhotos" =>
        \A p \in Photos : (~hidden[p]) <=> (last.note = "all" \/ category[p] = last.note)

\* C1 witness: a category filter has run on a page with entries of both
\* categories, hiding one entry and showing another
C1_Witness ==
    /\ last.op = "filterPhotos"
    /\ last.note = "portrait"
    /\ \E p, q \in Photos : hidden[p] /\ ~hidden[q] /\ category[q] = "portrait"

\* C3: a handleLike action lowers no entry's displayed like count and raises
\* the displayed count of the entry it is about by exactly 1, also when the
\* same button is clicked again and again.
C3_LikeRaisesByOne ==
    [][last'.op = "handleLike" =>
         /\ \A p \in Photos : DisplayedLikes(likesText'[p]) >= DisplayedLikes(likesText[p])
         /\ DisplayedLikes(likesText'[last'.arg]) = DisplayedLikes(likesText[last'.arg]) + 1]_vars

\* C3 witness: an entry served with "9 likes" has been liked twice in a row
\* and displays 11
C3_Witness ==
    /\ last.op = "handleLike"
    /\ DisplayedLikes(markupLikes[last.arg]) = 9
    /\ likesText[last.arg] = <<"1", "1", " ", "l", "i", "k", "e", "s">>

\* C4: after a page load, every photo entry whose title is a key of the
\* persisted like-count map displays the value persisted for that title
\* (the map holding only what like actions wrote).
C4_LikesRoundTrip ==
    last.op = "DOMContentLoaded" =>
        \A p \in Photos :
            HasKey(ReadLikes(storagePhotoLikes), title[p]) =>
                DisplayedLikes(likesText[p]) = GetKey(ReadLikes(storagePhotoLikes), title[p])

\* C5: two consecutive toggleTheme calls, started with the theme light or
\* dark, leave the current theme, the data-theme attribute and the persisted
\* theme equal to what they were before the first of the two.
C5_ToggleTwiceRestores ==
    (Len(last.before) = 2 /\ last.before[1].currentTheme \in Themes) =>
        ThemeState = last.before[1]

\* C5 witness: two toggles have run from a dark theme present in all three
\* places, and the theme is dark again
C5_Witness ==
    /\ last.op = "toggleTheme"
    /\ Len(last.before) = 2
    /\ last.before[1] = [currentTheme |-> "dark", dataTheme |-> "dark", stored |-> "dark"]
    /\ last.before[2].currentTheme = "light"
    /\ currentTheme = "dark"

\* C9: the DOMContentLoaded initialization applies the persisted theme when
\* one is stored; when none is stored it applies the system colour scheme
\* (dark when the system prefers dark), and light only when the system
\* offers no preference.
C9_InitAppliesPreference ==
    [][last'.op = "DOMContentLoaded" =>
         LET expected == IF storageTheme # None THEN storageTheme
                         ELSE IF systemPref = "dark" THEN "dark"
                         ELSE "light"
         IN currentTheme' = expected /\ dataTheme' = expected]_vars

\* C10: a system theme-preference change notification on a loaded page sets
\* the current theme, the data-theme attribute and the persisted theme to
\* the system's new scheme (dark if it now prefers dark, else light) when no
\* theme is persisted at that moment, and leaves all three unchanged when
\* one is.
C10_SystemChangeActsIffUnset ==
    [][(last'.op = "SystemThemeChange" /\ loaded) =>
         LET scheme == IF systemPref' = "dark" THEN "dark" ELSE "light"
         IN IF storageTheme = None
            THEN currentTheme' = scheme /\ dataTheme' = scheme /\ storageTheme' = scheme
            ELSE UNCHANGED <<currentTheme, dataTheme, storageTheme>>]_vars

\* C10 witness: after local storage was emptied, a notification that the
\* system now prefers dark has been applied to a light page
C10_Witness ==
    /\ last.op = "SystemThemeChange"
    /\ last.note = "applied"
    /\ systemPref = "dark"
    /\ currentTheme = "dark" /\ dataTheme = "dark" /\ storageTheme = "dark"

\* the files C2 calls valid: one of the five types, at most 10 MiB
C2_Valid(file) ==
    /\ file.type \in {"image/jpeg", "image/jpg", "image/png", "image/gif", "image/webp"}
    /\ file.size <= 10485760

\* the upload u leaves the stage `from` in this step
C2_Leaves(u, from) ==
    /\ u \in 1..Len(uploads) /\ uploads[u].stage = from
    /\ u \in 1..Len(uploads') /\ uploads'[u].stage # from

\* C2 as claimed: a selected file of an allowed type and of at most 10 MiB
\* makes the upload succeed and the target's image source is set; a file
\* failing either check makes the upload fail and sets no image source.
C2_ValidFileSetsImage ==
    [][/\ (last'.op = "change" /\ last'.file # NoFile) =>
             IF C2_Valid(last'.file)
             THEN uploads'[last'.arg].stage = "reading"
             ELSE uploads'[last'.arg].stage = "rejected" /\ placeholderImage' = placeholderImage
       /\ \A u \in 1..MaxUploads :
             C2_Leaves(u, "reading") =>
                 /\ uploads'[u].stage = "loaded"
                 /\ placeholderImage'[uploads[u].target] = u]_vars

\* C2 as amended: a selected file of an allowed type and of at most 10 MiB
\* (boundary included) passes validation and its read is started; the
\* target's image source is set when that read completes and is left as it
\* was when the read fails.  A file failing either check makes the upload
\* fail and sets no image source: an image source is only ever set by the
\* completed read of a file that passed both checks.
C2_ValidFileReadSetsImage ==
    [][/\ (last'.op = "change" /\ last'.file # NoFile) =>
             IF C2_Valid(last'.file)
             THEN uploads'[last'.arg].stage = "reading"
             ELSE uploads'[last'.arg].stage = "rejected" /\ placeholderImage' = placeholderImage
       /\ \A u \in 1..MaxUploads :
             C2_Leaves(u, "reading") =>
                 \/ /\ uploads'[u].stage = "loaded"
                    /\ placeholderImage'[uploads[u].target] = u
                 \/ /\ uploads'[u].stage = "readError"
                    /\ placeholderImage' = placeholderImage
       /\ \A p \in Photos :
             (placeholderImage'[p] # placeholderImage[p] /\ loaded') =>
                 \E u \in 1..Len(uploads) :
                     /\ uploads[u].target = p
                     /\ C2_Valid(uploads[u].file)
                     /\ C2_Leaves(u, "reading")
                     /\ uploads'[u].stage = "loaded"]_vars

\* C2 witness: a WebP file of exactly 10 MiB was accepted, read and painted
\* on its target
C2_Witness ==
    \E u \in 1..Len(uploads) :
        /\ uploads[u].stage = "loaded"
        /\ uploads[u].file = [type |-> "image/webp", size |-> 10485760]
        /\ placeholderImage[uploads[u].target] = u
        /\ last = Did("reader.onload", u, "")

\* C6: once a modal has been closed and a removal timer of the close has
\* fired, the modal is not in the document, whichever close events were
\* dispatched on it and however many.
C6_ClosedModalRemoved ==
    \A m \in 1..Len(modals) :
        modals[m].removalTimers < modals[m].closeCalls => ~modals[m].inBody

\* C6 witness: a modal was closed by the close button and by a further close
\* event, every removal timer has fired, and the modal is gone
C6_Witness ==
    \E m \in 1..Len(modals) :
        /\ modals[m].closeCalls >= 2
        /\ modals[m].removalTimers = 0
        /\ ~modals[m].inBody
        /\ last.op = "RemovalTimer"

\* C7: for each opened modal the closeModal routine runs exactly once (never
\* twice), and so does its scheduled removal of the modal from the body: no
\* removal finds the modal already gone.
C7_OneCloseRunPerModal ==
    \A m \in 1..Len(modals) :
        modals[m].closeCalls <= 1 /\ modals[m].removeErrors = 0

\* C8: a handlePhotoUpload that fails on validation or cancellation reports
\* the error and mutates nothing else: the target's image, the loading
\* indicator, the persisted storage and the elements of the body other than
\* the error notice are as before the upload was started, so the file input
\* the upload added to the body is gone again.
C8_FailedUploadMutatesNothing ==
    [][\A u \in 1..MaxUploads :
          (C2_Leaves(u, "picking") /\ uploads'[u].stage = "rejected") =>
              /\ Len(notices') = Len(notices) + 1
              /\ placeholderImage' = placeholderImage
              /\ loadingDisplay' = loadingDisplay
              /\ storageTheme' = storageTheme
              /\ storagePhotoLikes' = storagePhotoLikes
              /\ modals' = modals
              /\ ~uploads'[u].inputInBody
              /\ \A v \in 1..Len(uploads) :
                    v # u => uploads'[v].inputInBody = uploads[v].inputInBody]_vars

\* C11: a handleView on a photo entry opens a modal showing the entry's
\* image when the entry has an image set (the image a successful upload to
\* that entry painted), and otherwise shows the "no photo to view" notice and
\* creates no modal; each call has exactly one of the two outcomes.
C11_ViewOpensUploadedImage ==
    [][\A p \in Photos :
          (last'.op = "handleView" /\ last'.arg = p) =>
              IF placeholderImage[p] # NoImage
              THEN /\ Len(modals') = Len(modals) + 1
                   /\ modals'[Len(modals')].src = placeholderImage[p]
                   /\ modals'[Len(modals')].inBody
                   /\ notices' = notices
              ELSE /\ Len(notices') = Len(notices) + 1
                   /\ notices'[Len(notices')].message = NoPhotoMessage
                   /\ modals' = modals]_vars

\* C12: whenever at least one file read is in flight the loading indicator
\* is shown, and once no read is in flight it is hidden, also when uploads
\* overlap.
C12_LoadingShownWhileReading ==
    loaded =>
        IF \E u \in 1..Len(uploads) : uploads[u].stage = "reading"
        THEN loadingDisplay = "block"
        ELSE loadingDisplay # "block"

\* C13: when the read of a validated upload fails, an error notice with the
\* read-failure message is shown, the loading indicator is cleared and the
\* image of every entry, the target included, is what it was.
C13_ReadErrorReported ==
    [][\A u \in 1..MaxUploads :
          (C2_Leaves(u, "reading") /\ uploads'[u].stage = "readError") =>
              /\ Len(notices') = Len(notices) + 1
              /\ notices'[Len(notices')] = [message |-> ReadFailedMessage, stage |-> "visible"]
              /\ \A n \in 1..Len(notices) : notices'[n] = notices[n]
              /\ loadingDisplay' = "none"
              /\ placeholderImage' = placeholderImage]_vars

\* C13 witness: the read of a second upload to an entry failed; the notice is
\* up, the indicator is hidden and the entry still shows the first upload
C13_Witness ==
    \E u \in 1..Len(uploads) :
        /\ last = Did("reader.onerror", u, "")
        /\ uploads[u].stage = "readError"
        /\ placeholderImage[uploads[u].target] \notin {NoImage, u}
        /\ loadingDisplay = "none"
        /\ \E n \in 1..Len(notices) : notices[n].message = ReadFailedMessage

\* C19: at most one modal overlay is in the document at any time, also when
\* handleView runs again before the open modal was closed or while it fades
\* out.
C19_AtMostOneModal ==
    Cardinality({m \in 1..Len(modals) : modals[m].inBody}) <= 1

C17_Persisted(item, t) ==
    IF HasKey(ReadLikes(item), t) THEN GetKey(ReadLikes(item), t) ELSE 0

C14_NoticeRemovedOnce ==
    /\ (tracked # 0) ~> (tracked = 0)
    /\ [][/\ (loaded' /\ Len(notices') < Len(notices)) =>
                /\ last'.op = "NoticeRemoval"
                /\ last'.arg \in 1..Len(notices)
                /\ notices[last'.arg].stage = "exiting"
                /\ notices' = RemoveAt(notices, last'.arg)
          /\ (loaded' /\ tracked # 0 /\ tracked' = 0) =>
                last' = Did("NoticeRemoval", tracked, "tracked")
          /\ (tracked # 0 /\ tracked' # 0) =>
                /\ notices'[tracked'].message = notices[tracked].message
                /\ notices[tracked].stage = "exiting" => notices'[tracked'].stage = "exiting"]_vars

\* C14 witness: the observed notice has just been removed while a later
\* notice is still in the document
C14_Witness ==
    /\ last = Did("NoticeRemoval", 1, "tracked")
    /\ tracked = 0
    /\ Len(notices) >= 1

\* the link a navigation task activates, 0 when it activates none: the
\* clicked link when its target exists; for an intersection callback the
\* first link pointing at the section of its last intersecting entry that
\* some link points at
C15_Activation(task) ==
    IF task.op = "navClick"
    THEN IF linkTarget[task.arg] \in Sections THEN task.arg ELSE 0
    ELSE LET hits == {i \in 1..Len(task.before) :
                         /\ task.before[i].isIntersecting
                         /\ \E l \in Links : linkTarget[l] = task.before[i].target}
         IN IF hits = {} THEN 0
            ELSE LET latest == CHOOSE i \in hits : \A j \in hits : j <= i
                     pointing == {l \in Links : linkTarget[l] = task.before[latest].target}
                 IN CHOOSE l \in pointing : \A k \in pointing : l <= k

\* C15: a nav click or an intersection callback that activates a link leaves
\* exactly that link (the most recently activated one) with the active class
\* and aria-current, whatever was marked before; one that activates nothing
\* leaves the marks as they are.  So after at least one activation exactly
\* one link is active.
C15_OneActiveLink ==
    [][last'.op \in {"navClick", "scrollSpy"} =>
          IF C15_Activation(last') # 0
          THEN /\ activeLinks' = {C15_Activation(last')}
               /\ currentLinks' = {C15_Activation(last')}
          ELSE UNCHANGED navVars]_vars

\* C15 witness: on a page served with two links marked, one intersection
\* callback reported two sections that have links; only the link of the
\* second is marked
C15_Witness ==
    /\ last.op = "scrollSpy"
    /\ Len(last.before) = 2
    /\ last.before[1].isIntersecting /\ last.before[2].isIntersecting
    /\ last.before[1].target # last.before[2].target
    /\ CorrespondingLink(last.before[1].target) # 0
    /\ CorrespondingLink(last.before[2].target) # 0
    /\ Cardinality(markupActiveLinks) = 2
    /\ activeLinks = {CorrespondingLink(last.before[2].target)}
    /\ currentLinks = activeLinks

\* text is the start of source
C18_IsPrefix(text, source) ==
    /\ Len(text) <= Len(source)
    /\ \A i \in 1..Len(text) : text[i] = source[i]

\* C18: the displayed subtitle is always a prefix of the source; a timer
\* step that finds characters left appends exactly the next one and keeps
\* the cursor, the step that finds none left removes the cursor and ends the
\* run; the cursor is gone only when the run has ended with the full text;
\* no step follows the end; and a run on a page that stays open ends.
C18_TypingTerminates ==
    /\ [](C18_IsPrefix(subtitleText, subtitleSource))
    /\ [](subtitleCursor = "none" => (~typingTimer /\ subtitleText = subtitleSource))
    /\ [][last'.op = "typeWriter" =>
            /\ typingTimer
            /\ IF Len(subtitleText) < Len(subtitleSource)
               THEN /\ subtitleText' = Append(subtitleText, subtitleSource[Len(subtitleText) + 1])
                    /\ subtitleCursor' = subtitleCursor
                    /\ subtitleCursor # "none"
                    /\ typingTimer'
               ELSE /\ subtitleText' = subtitleText
                    /\ subtitleText = subtitleSource
                    /\ subtitleCursor' = "none"
                    /\ ~typingTimer']_vars
    /\ typingTimer ~> (~loaded \/ (~typingTimer /\ subtitleText = subtitleSource
                                       /\ subtitleCursor = "none"))

\* C18 witness: the run over a subtitle of the greatest length has ended
C18_Witness ==
    /\ last = Did("typeWriter", MaxSubtitle, "")
    /\ Len(subtitleSource) = MaxSubtitle
    /\ subtitleText = subtitleSource
    /\ subtitleCursor = "none"
    /\ ~typingTimer

\* C20: when step f of the initialization throws, the handler returns with
\* the error logged once; every step before f has taken effect and its
\* listeners are bound; every step after f was skipped; and while the page
\* stays open the bound listeners stay bound.
C20_FailureCaughtLaterStepsSkipped ==
    /\ [][\A f \in InitSteps :
             (last'.op = "DOMContentLoaded" /\ last'.arg = f) =>
                 /\ loaded'
                 /\ consoleErrors' = 1
                 /\ \A k \in InitSteps :
                       /\ k < f => StepListeners(k) \subseteq listeners'
                       /\ k > f => StepListeners(k) \cap listeners' = {}
                 /\ f > StepOf("ThemeManager") =>
                       /\ currentTheme' = InitialTheme(storageTheme)
                       /\ dataTheme' = currentTheme'
                       /\ storageTheme' = currentTheme'
                 /\ IF f > StepOf("GalleryManager")
                    THEN currentFilter' = "all"
                    ELSE currentFilter' = None
                 /\ IF f > StepOf("TypingAnimation")
                    THEN typingTimer' /\ subtitleText' = <<>>
                    ELSE ~typingTimer' /\ subtitleText' = subtitleSource
                 /\ likesText' = markupLikes]_vars
    /\ [][(loaded /\ loaded') =>
             (listeners' = listeners /\ consoleErrors' = consoleErrors)]_vars

\* C20 witness: NavigationManager threw; a filter button, bound before, then
\* switched the filter; the typing animation never started
C20_Witness ==
    /\ last = Did("filterPhotos", 0, "landscape")
    /\ consoleErrors = 1
    /\ currentFilter = "landscape"
    /\ dataTheme = "light"
    /\ {"theme", "gallery"} \subseteq listeners
    /\ listeners \cap {"scrollSpy", "animation", "performance"} = {}
    /\ ~typingTimer
    /\ subtitleText = subtitleSource
    /\ subtitleText # <<>>

\* C24: a handleLike on one photo changes only that photo's displayed count
\* and the persisted entry of that photo's title: the displayed counts of the
\* other entries, the persisted entries of the other titles, the filter
\* state, the images and the theme are as before.
C24_LikeChangesOnlyItsEntry ==
    [][\A p \in Photos :
          (last'.op = "handleLike" /\ last'.arg = p) =>
              /\ likesText'[p] # likesText[p]
              /\ \A q \in Photos \ {p} : likesText'[q] = likesText[q]
              /\ HasKey(ReadLikes(storagePhotoLikes'), title[p])
              /\ \A t \in Titles \ {title[p]} :
                    /\ HasKey(ReadLikes(storagePhotoLikes'), t) = HasKey(ReadLikes(storagePhotoLikes), t)
                    /\ C17_Persisted(storagePhotoLikes', t) = C17_Persisted(storagePhotoLikes, t)
              /\ UNCHANGED <<currentFilter, hidden, activeButtons>>
              /\ placeholderImage' = placeholderImage
              /\ UNCHANGED <<currentTheme, dataTheme, themeIcon, storageTheme>>]_vars

\* C24 witness: a like on the second entry while the other title has a
\* persisted count, a category filter is set, the first entry shows an
\* uploaded image and the theme is dark
C24_Witness ==
    /\ last = Did("handleLike", 2, "")
    /\ likesText = <<LikesLabel(2), LikesLabel(1)>>
    /\ C17_Persisted(storagePhotoLikes, title[1]) = 2
    /\ C17_Persisted(storagePhotoLikes, title[2]) = 1
    /\ currentFilter = "landscape"
    /\ placeholderImage[1] # NoImage
    /\ dataTheme = "dark"

\* C22: a read in flight is never cancelled: an upload leaves the reading
\* stage only by its own onload or onerror, whatever uploads were started on
\* the same element meanwhile; every read that completes paints its target,
\* so the element shows the image of the read that completed last, also when
\* that upload was started first; and an image changes in no other way.
C22_LastCompletedReadWins ==
    [][/\ \A u \in 1..MaxUploads :
             (C2_Leaves(u, "reading") /\ uploads'[u].stage = "loaded") =>
                 /\ last' = Did("reader.onload", u, "")
                 /\ placeholderImage'[uploads[u].target] = u
                 /\ \A v \in 1..Len(uploads) : v # u => uploads'[v] = uploads[v]
       /\ \A u \in 1..Len(uploads) :
             (uploads[u].stage = "reading" /\ loaded') =>
                 /\ u <= Len(uploads')
                 /\ \/ uploads'[u].stage = "reading"
                    \/ last' = Did("reader.onload", u, "")
                    \/ last' = Did("reader.onerror", u, "")
       /\ \A p \in Photos :
             (placeholderImage'[p] # placeholderImage[p] /\ loaded') =>
                 /\ last'.op = "reader.onload"
                 /\ uploads[last'.arg].target = p
                 /\ placeholderImage'[p] = last'.arg]_vars

\* C22 witness: two uploads to one element were reading at once, the second
\* was read first and the first one last; the element shows the first
C22_Witness ==
    /\ Len(uploads) = 2
    /\ uploads[1].target = uploads[2].target
    /\ uploads[1].stage = "loaded"
    /\ uploads[2].stage = "loaded"
    /\ last = Did("reader.onload", 1, "")
    /\ placeholderImage[uploads[1].target] = 1

\* C23: once ThemeManager has been constructed, under any toggles and
\* system-preference notifications, a theme is persisted and it equals the
\* manager's current theme and the data-theme attribute; and the three are
\* light or dark when the value stored at construction was absent, light or
\* dark.
C23_ThemeInThreePlaces ==
    /\ []("theme" \in listeners =>
              /\ storageTheme # None
              /\ storageTheme = currentTheme
              /\ storageTheme = dataTheme)
    /\ [][/\ (last'.op = "DOMContentLoaded" /\ storageTheme \in Themes \cup {None}) =>
                storageTheme' \in Themes
          /\ (loaded /\ loaded' /\ storageTheme \in Themes) => storageTheme' \in Themes]_vars

\* C23 witness: the page was toggled to dark, then the system scheme changed
\* to light; the notification left dark in all three places
C23_Witness ==
    /\ last = Did("SystemThemeChange", 0, "ignored")
    /\ "theme" \in listeners
    /\ systemPref = "light"
    /\ storageTheme = "dark"
    /\ currentTheme = "dark"
    /\ dataTheme = "dark"
    /\ transitionTimers > 0

\* C21: with two tabs on the shared like-count map, every handleLike sets
\* the entry of the liked title to the count the writing tab displayed plus
\* 1, whatever is persisted, keeps the entries of all other titles (the ones
\* the other tab wrote included) and leaves the other tab's labels alone.
C21_LastWriteWins ==
    [][\A p \in Photos :
          /\ (last'.op = "handleLike" /\ last'.arg = p) =>
                /\ HasKey(ReadLikes(storagePhotoLikes'), title[p])
                /\ GetKey(ReadLikes(storagePhotoLikes'), title[p]) = DisplayedLikes(likesText[p]) + 1
                /\ tabLikesText' = tabLikesText
          /\ (last'.op = "otherTab.handleLike" /\ last'.arg = p) =>
                /\ HasKey(ReadLikes(storagePhotoLikes'), title[p])
                /\ GetKey(ReadLikes(storagePhotoLikes'), title[p]) = DisplayedLikes(tabLikesText[p]) + 1
                /\ likesText' = likesText
          /\ (last'.op \in {"handleLike", "otherTab.handleLike"} /\ last'.arg = p) =>
                \A t \in Titles \ {title[p]} :
                    /\ HasKey(ReadLikes(storagePhotoLikes'), t) = HasKey(ReadLikes(storagePhotoLikes), t)
                    /\ HasKey(ReadLikes(storagePhotoLikes), t) =>
                          GetKey(ReadLikes(storagePhotoLikes'), t) = GetKey(ReadLikes(storagePhotoLikes), t)]_vars

\* C21 witness: the first tab liked the first entry twice and the second
\* once; the second tab, loaded before, then liked the first entry: its
\* persisted count fell from 2 to 1 and the second entry's count was kept
C21_Witness ==
    /\ last = Did("otherTab.handleLike", 1, "")
    /\ loaded /\ tabLoaded
    /\ title[1] # title[2]
    /\ likesText[1] = LikesLabel(2) /\ likesText[2] = LikesLabel(1)
    /\ tabLikesText[1] = LikesLabel(1) /\ tabLikesText[2] = LikesLabel(0)
    /\ GetKey(ReadLikes(storagePhotoLikes), title[1]) = 1
    /\ GetKey(ReadLikes(storagePhotoLikes), title[2]) = 1

====
